---------------------------- MODULE Spec2Model ----------------------------
(***************************************************************************)
(* A model of kati's Ninja generator (src/ninja.cc).                       *)
(*                                                                         *)
(* A C++ string is a sequence of one-character strings.  Positions are     *)
(* 1-based; string::npos is 0.  The character PAD stands for a run of      *)
(* PadRun ordinary bytes (bytes of the scanner's default case), so that    *)
(* the response-file threshold of EmitNode can be crossed with short       *)
(* sequences; size() in a comparison against the threshold is ByteSize.    *)
(***************************************************************************)
EXTENDS Integers, Sequences, FiniteSets, TLC

VARIABLES
  pc,          \* position of Generate: "shell","ninja","walk","returned","exited","aborted"
  g_goma_dir,  \* flags: <<>> is NULL, otherwise the directory
  deps,        \* DepNode::deps, by output symbol
  order_onlys, \* DepNode::order_onlys, by output symbol
  roots,       \* the nodes handed to Generate
  ce_,         \* the command lists the evaluator can return for a node
  calls,       \* pending EmitNode calls, next one first
  done_,       \* NinjaGenerator::done_
  rule_id_,    \* NinjaGenerator::rule_id_
  cmd_buf_,    \* NinjaGenerator::cmd_buf_
  ninja,       \* lines written to build<suffix>.ninja
  script,      \* lines written to ninja<suffix>.sh
  open,        \* the files currently open
  avoid_io,    \* Evaluator::avoid_io
  abort,       \* why the process died inside EmitNode, or "none"
  under,       \* the strip loop of TranslateCommand read a byte below orig_size
  wild,        \* TranslateCommand used cmd_buf_[size-1] of an empty buffer
  fcmd,        \* FindCommandLineFlagWithArg: argument cmd
  fname,       \* FindCommandLineFlagWithArg: argument name
  fret         \* FindCommandLineFlagWithArg: [called, failed, val]

vars == <<pc, g_goma_dir, deps, order_onlys, roots, ce_, calls, done_, rule_id_,
          cmd_buf_, ninja, script, open, avoid_io, abort, under, wild, fcmd, fname, fret>>

-----------------------------------------------------------------------------
(* Characters and string primitives *)

BSL == "\\"
NL == "\n"
TAB == "\t"
PAD == "PAD"
\* The backquote byte (0x60), which a string literal cannot hold.
BQ == "BQ"

\* The response-file threshold, 100 * 1000.
RspThreshold == 100000

\* The number of bytes one PAD stands for.
PadRun == RspThreshold

isspace(c) == c \in {" ", TAB, NL}

RECURSIVE ByteSize(_)
ByteSize(s) ==
  IF s = <<>> THEN 0
  ELSE (IF Head(s) = PAD THEN PadRun ELSE 1) + ByteSize(Tail(s))

Min(S) == CHOOSE x \in S : \A y \in S : x <= y
Max(S) == CHOOSE x \in S : \A y \in S : x >= y

\* The least position of a set of positions, 0 (npos) when there is none.
FirstOf(S) == IF S = {} THEN 0 ELSE Min(S)
LastOf(S) == IF S = {} THEN 0 ELSE Max(S)

MatchAt(s, p, i) ==
  /\ i >= 1
  /\ i + Len(p) - 1 <= Len(s)
  /\ \A k \in 1..Len(p) : s[i + k - 1] = p[k]

\* StringPiece::find: the first position of p in s, 0 when there is none.
find(s, p) == FirstOf({i \in 1..(Len(s) - Len(p) + 1) : MatchAt(s, p, i)})

\* StringPiece::rfind of one character.
rfind(s, c) == LastOf({i \in 1..Len(s) : s[i] = c})

\* StringPiece::substr(pos): the characters from position i on.
substr(s, i) == SubSeq(s, i, Len(s))

HasPrefix(s, p) == MatchAt(s, p, 1)

HasSuffix(s, p) == Len(p) <= Len(s) /\ MatchAt(s, p, Len(s) - Len(p) + 1)

RECURSIVE TrimLeftSpace(_)
TrimLeftSpace(s) ==
  IF s # <<>> /\ isspace(Head(s)) THEN TrimLeftSpace(Tail(s)) ELSE s

\* s without its extension, given the positions of its last slash and dot.
StripExtAt(s, slash, dot) ==
  IF dot = 0 \/ (slash # 0 /\ dot < slash) THEN s ELSE SubSeq(s, 1, dot - 1)

\* strutil: the path without its last extension (a dot after the last slash).
StripExt(s) == StripExtAt(s, rfind(s, "/"), rfind(s, "."))

BasenameAt(s, slash) ==
  IF slash = 0 \/ slash = 1 THEN s ELSE substr(s, slash + 1)

\* strutil: the path after its last slash.
Basename(s) == BasenameAt(s, rfind(s, "/"))

-----------------------------------------------------------------------------
(* Command-line scanner *)

\* The piece FindCommandLineFlagWithArg goes on with after a match of name at
\* index in val.
AfterFlag(val, name, index) == TrimLeftSpace(substr(val, index + Len(name)))

\* The loop of FindCommandLineFlagWithArg: val, with index = val.find(name).
RECURSIVE FlagRescan(_, _, _)
FlagRescan(val, name, index) ==
  IF index = 0 THEN val
  ELSE FlagRescan(AfterFlag(val, name, index), name,
                  find(AfterFlag(val, name, index), name))

\* The end of FindCommandLineFlagWithArg: val up to the space at index, and
\* whether the CHECK fired.
FlagArgument(val, index) ==
  IF index = 0 THEN [failed |-> TRUE, val |-> <<>>]
  ELSE [failed |-> FALSE, val |-> SubSeq(val, 1, index - 1)]

FlagValue(val) == FlagArgument(val, find(val, <<" ">>))

FlagFrom(cmd, name, index) ==
  IF index = 0 THEN [failed |-> FALSE, val |-> <<>>]
  ELSE FlagValue(FlagRescan(cmd, name, index))

\* [failed |-> the CHECK fired, val |-> the returned piece].
FindCommandLineFlagWithArg(cmd, name) == FlagFrom(cmd, name, find(cmd, name))

IsCompilerName(cc) ==
  \/ HasSuffix(cc, <<"g","c","c">>)
  \/ HasSuffix(cc, <<"g","+","+">>)
  \/ HasSuffix(cc, <<"c","l","a","n","g">>)
  \/ HasSuffix(cc, <<"c","l","a","n","g","+","+">>)

\* IsAndroidCompileCommand from the first space of the stripped command on.
CompilerCallAt(cmd, index) ==
  /\ index # 0
  /\ IsCompilerName(SubSeq(cmd, 1, index - 1))
  /\ find(substr(cmd, index), <<" ","-","c"," ">>) # 0

CompilerCall(cmd) == CompilerCallAt(cmd, find(cmd, <<" ">>))

\* IsAndroidCompileCommand after prebuilts/ is stripped.
AfterPrebuilts(cmd) ==
  IF HasPrefix(cmd, <<"g","c","c","/">>) THEN CompilerCall(substr(cmd, 5))
  ELSE IF HasPrefix(cmd, <<"c","l","a","n","g","/">>) THEN CompilerCall(substr(cmd, 7))
  ELSE FALSE

IsAndroidCompileCommand(cmd) ==
  /\ HasPrefix(cmd, <<"p","r","e","b","u","i","l","t","s","/">>)
  /\ AfterPrebuilts(substr(cmd, 11))

-----------------------------------------------------------------------------
(* Depfile inferencer *)

HasDepFlag(cmd) ==
  \/ find(cmd, <<" ","-","M","D"," ">>) # 0
  \/ find(cmd, <<" ","-","M","M","D"," ">>) # 0

\* GetDepfileFromCommandImpl once -MF is not given: o is the -o argument.
\* ERROR (log.h) is taken to log and go on, as the return after it says.
DepfileFromOutput(o) ==
  IF o.failed THEN [abort |-> "check_arg", ok |-> FALSE, out |-> <<>>]
  ELSE IF o.val = <<>> THEN [abort |-> "none", ok |-> FALSE, out |-> <<>>]
  ELSE [abort |-> "none", ok |-> TRUE, out |-> StripExt(o.val) \o <<".","d">>]

\* GetDepfileFromCommandImpl from the -MF argument on.
DepfileFromFlags(cmd, mf) ==
  IF mf.failed THEN [abort |-> "check_arg", ok |-> FALSE, out |-> <<>>]
  ELSE IF mf.val # <<>> THEN [abort |-> "none", ok |-> TRUE, out |-> mf.val]
  ELSE DepfileFromOutput(FindCommandLineFlagWithArg(cmd, <<" ","-","o"," ">>))

\* [abort |-> "check_arg" when the CHECK of the scanner fired, ok |-> the
\* result, out |-> *out].
GetDepfileFromCommandImpl(cmd) ==
  IF ~HasDepFlag(cmd) THEN [abort |-> "none", ok |-> FALSE, out |-> <<>>]
  ELSE DepfileFromFlags(cmd, FindCommandLineFlagWithArg(cmd, <<" ","-","M","F"," ">>))

\* The .P sibling of a depfile.
SiblingP(out) == StripExt(out) \o <<".","P">>

\* The .s test of GetDepfileFromCommand: the command names /<basename>.s.
IsAssemblyInput(cmd, out) ==
  find(cmd, <<"/">> \o StripExt(Basename(out)) \o <<".","s">>) # 0

\* GetDepfileFromCommand after GetDepfileFromCommandImpl returned impl.
DepfileHacks(cmd, impl) ==
  IF impl.abort # "none" \/ ~impl.ok THEN impl
  ELSE IF find(cmd, <<"b","i","n","/","l","l","v","m","-","r","s","-","c","c"," ">>) # 0
    THEN [abort |-> "none", ok |-> FALSE, out |-> <<>>]
  ELSE IF find(cmd, SiblingP(impl.out)) # 0
    THEN [abort |-> "none", ok |-> TRUE, out |-> SiblingP(impl.out)]
  ELSE IF IsAssemblyInput(cmd, impl.out)
    THEN [abort |-> "none", ok |-> FALSE, out |-> <<>>]
  ELSE impl

\* [abort |-> "check_space" or "check_arg" when a CHECK fired, ok, out].
GetDepfileFromCommand(cmd) ==
  IF cmd = <<>> \/ cmd[Len(cmd)] # " "
  THEN [abort |-> "check_space", ok |-> FALSE, out |-> <<>>]
  ELSE DepfileHacks(cmd, GetDepfileFromCommandImpl(cmd))

-----------------------------------------------------------------------------
(* Recipe translator *)

\* Whether the scanner clears prev_backslash at byte c: only its default case does.
ClearsBackslash(c) == c \notin {"#", "'", "\"", BQ, "$", TAB, NL, BSL}

\* quote after the quote case of the switch, on byte c.
QuoteAfter(c, quote, prev_backslash) ==
  IF quote # "" THEN (IF quote = c THEN "" ELSE quote)
  ELSE IF ~prev_backslash THEN c ELSE quote

\* One iteration of the switch of TranslateCommand on byte c.
\* st = [buf, prev_backslash, quote, done, wild]; quote "" is 0; wild records a
\* write to cmd_buf_[size-1] of an empty buffer.
ScanByte(c, st) ==
  IF c = "#" /\ st.quote = "" /\ ~st.prev_backslash
    THEN [st EXCEPT !.done = TRUE]
  ELSE IF c \in {"#", "'", "\"", BQ}
    THEN [st EXCEPT !.quote = QuoteAfter(c, st.quote, st.prev_backslash),
                    !.buf = Append(st.buf, c)]
  ELSE IF c = "$"
    THEN [st EXCEPT !.buf = st.buf \o <<"$", "$">>]
  ELSE IF c = TAB
    THEN [st EXCEPT !.buf = Append(st.buf, " ")]
  ELSE IF c = NL
    THEN IF st.prev_backslash
         THEN IF st.buf = <<>> THEN [st EXCEPT !.wild = TRUE]
              ELSE [st EXCEPT !.buf = [st.buf EXCEPT ![Len(st.buf)] = " "]]
         ELSE [st EXCEPT !.buf = Append(st.buf, " ")]
  ELSE IF c = BSL
    THEN [st EXCEPT !.prev_backslash = ~st.prev_backslash,
                    !.buf = Append(st.buf, BSL)]
  ELSE [st EXCEPT !.buf = Append(st.buf, c),
                  !.prev_backslash = IF ClearsBackslash(c) THEN FALSE ELSE @]

\* The for loop of TranslateCommand.
RECURSIVE Scan(_, _)
Scan(in, st) ==
  IF in = <<>> \/ st.done THEN st ELSE Scan(Tail(in), ScanByte(Head(in), st))

\* Where the strip loop of TranslateCommand stops: cmd_buf_[size-1] is read at
\* every size from Len(buf) down to the result, and the loop has no lower limit;
\* 0 means it read cmd_buf_[size-1] of an empty buffer.
RECURSIVE StripStop(_)
StripStop(buf) ==
  IF buf = <<>> THEN 0
  ELSE IF ~isspace(buf[Len(buf)]) /\ buf[Len(buf)] # ";" THEN Len(buf)
  ELSE StripStop(SubSeq(buf, 1, Len(buf) - 1))

\* How a run ends that read cmd_buf_[size-1] of an empty buffer and got garbage:
\* "FAULT" (the process dies), or a byte; with a space or a semicolon there,
\* resize(size-1) of an empty string throws length_error.
WildRead(garbage) ==
  IF garbage = "FAULT" THEN "fault"
  ELSE IF isspace(garbage) \/ garbage = ";" THEN "length_error"
  ELSE "none"

\* The end of TranslateCommand: st is the scan's state, stop where the strip
\* loop stops.
Stripped(orig_size, st, stop, garbage) ==
  [buf |-> SubSeq(st.buf, 1, stop),
   translated |-> SubSeq(st.buf, orig_size + 1, stop),
   abort |-> IF st.wild THEN "fault"
             ELSE IF stop # 0 THEN "none"
             ELSE WildRead(garbage),
   under |-> stop <= orig_size,
   wild |-> stop = 0 \/ st.wild]

StripResult(orig_size, st, garbage) ==
  Stripped(orig_size, st, StripStop(st.buf), garbage)

\* TranslateCommand on recipe in with cmd_buf_ = buf.
\* [buf, translated, abort, under, wild]: under says the strip loop read a byte
\* below orig_size, wild that cmd_buf_[size-1] of an empty buffer was used.
TranslateCommand(in, buf, garbage) ==
  StripResult(Len(buf),
              Scan(in, [buf |-> buf, prev_backslash |-> FALSE, quote |-> "",
                        done |-> FALSE, wild |-> FALSE]),
              garbage)

-----------------------------------------------------------------------------
(* Shell-script composer *)

\* Separator, were the flag of the command before not looked at.
SeparatorAnd(should_ignore_error) == <<" ", "&", "&", " ">>

\* The separator GenShellScript puts before a command, from the flag of the
\* command before it.
Separator(should_ignore_error) ==
  IF should_ignore_error THEN <<" ", ";", " ">> ELSE <<" ", "&", "&", " ">>

\* The recipe after GenShellScript's skip of leading whitespace.
RECURSIVE SkipSpace(_)
SkipSpace(in) ==
  IF in # <<>> /\ isspace(Head(in)) THEN SkipSpace(Tail(in)) ELSE in

NeedsSubshell(ncommands, in) ==
  ncommands > 1 /\ ~(in # <<>> /\ Head(in) = "(")

\* gomacc_, as the constructor sets it.
Gomacc(goma_dir) ==
  IF goma_dir = <<>> THEN <<>> ELSE goma_dir \o <<"/","g","o","m","a","c","c"," ">>

\* Whether GenShellScript puts the wrapper in front of a translated command.
WrapsCommand(goma_dir, translated) ==
  translated # <<>> /\ goma_dir # <<>> /\ IsAndroidCompileCommand(translated)

\* LocalPoolNeeded, were use_gomacc not looked at.
LocalPoolWithGoma(goma_dir, use_gomacc) == goma_dir # <<>>

\* GenShellScript's return value.
LocalPoolNeeded(goma_dir, use_gomacc) == goma_dir # <<>> /\ ~use_gomacc

\* cmd_buf_ when TranslateCommand is called: the separator and the opening
\* parenthesis are in.
Opened(buf, should_ignore_error, needs_subshell) ==
  (IF buf # <<>> THEN buf \o Separator(should_ignore_error) ELSE buf)
  \o (IF needs_subshell THEN <<"(">> ELSE <<>>)

\* cmd_buf_ after the translation t of a command: true for an empty one, the
\* wrapper inserted at cmd_start.
Filled(t, cmd_start, goma_dir) ==
  IF t.translated = <<>> THEN t.buf \o <<"t","r","u","e">>
  ELSE IF WrapsCommand(goma_dir, t.translated)
    THEN SubSeq(t.buf, 1, cmd_start) \o Gomacc(goma_dir)
         \o SubSeq(t.buf, cmd_start + 1, Len(t.buf))
  ELSE t.buf

\* The end of an iteration of GenShellScript.
Closed(buf, is_last, ignore_error, needs_subshell) ==
  buf \o (IF is_last /\ ignore_error THEN <<" ", ";", " ", "t","r","u","e">> ELSE <<>>)
      \o (IF needs_subshell THEN <<")">> ELSE <<>>)

\* An iteration of GenShellScript after TranslateCommand returned t.
\* acc = [buf, use_gomacc, should_ignore_error, abort, under, wild].
Translated(c, is_last, needs_subshell, cmd_start, t, acc, goma_dir) ==
  IF t.abort # "none"
  THEN [acc EXCEPT !.buf = t.buf, !.abort = t.abort, !.under = @ \/ t.under,
                   !.wild = @ \/ t.wild]
  ELSE [buf |-> Closed(Filled(t, cmd_start, goma_dir), is_last, c.ignore_error,
                       needs_subshell),
        use_gomacc |-> acc.use_gomacc \/ WrapsCommand(goma_dir, t.translated),
        should_ignore_error |-> c.ignore_error,
        abort |-> "none",
        under |-> acc.under \/ t.under,
        wild |-> acc.wild \/ t.wild]

\* An iteration of GenShellScript from the call of TranslateCommand on, with
\* cmd_buf_ = buf.
Translate(c, is_last, in, needs_subshell, buf, acc, goma_dir, garbage) ==
  Translated(c, is_last, needs_subshell, Len(buf),
             TranslateCommand(in, buf, garbage), acc, goma_dir)

\* An iteration of GenShellScript on command c, in its recipe after the
\* leading whitespace.
Compose(c, is_last, ncommands, in, acc, goma_dir, garbage) ==
  Translate(c, is_last, in, NeedsSubshell(ncommands, in),
            Opened(acc.buf, acc.should_ignore_error, NeedsSubshell(ncommands, in)),
            acc, goma_dir, garbage)

\* One iteration of the loop of GenShellScript, on the i-th command.
ShellStep(commands, i, acc, goma_dir, garbage) ==
  Compose(commands[i], i = Len(commands), Len(commands),
          SkipSpace(commands[i].cmd), acc, goma_dir, garbage)

RECURSIVE ShellLoop(_, _, _, _, _)
ShellLoop(commands, i, acc, goma_dir, garbage) ==
  IF i > Len(commands) \/ acc.abort # "none" THEN acc
  ELSE ShellLoop(commands, i + 1, ShellStep(commands, i, acc, goma_dir, garbage),
                 goma_dir, garbage)

\* GenShellScript's result from the state r its loop ends in.
ShellResult(r, goma_dir) ==
  [buf |-> r.buf, pool |-> LocalPoolNeeded(goma_dir, r.use_gomacc),
   abort |-> r.abort, under |-> r.under, wild |-> r.wild]

\* GenShellScript: [buf |-> cmd_buf_, pool |-> the return value, abort, under,
\* wild].
GenShellScript(commands, goma_dir, garbage) ==
  ShellResult(ShellLoop(commands, 1,
                        [buf |-> <<>>, use_gomacc |-> FALSE,
                         should_ignore_error |-> FALSE, abort |-> "none",
                         under |-> FALSE, wild |-> FALSE],
                        goma_dir, garbage),
              goma_dir)

-----------------------------------------------------------------------------
(* Node emitter *)

\* A line of the manifest.  cmds is the evaluated command list a rule line was
\* written for (kept for the properties; not part of the file).
Line(kind, out, rule, val, ds, oos, cmds) ==
  [kind |-> kind, out |-> out, rule |-> rule, val |-> val,
   deps |-> ds, order_onlys |-> oos, cmds |-> cmds]

Attr(kind, val) == Line(kind, "", <<>>, val, <<>>, <<>>, <<>>)

\* InsertDone, were the result of the insertion not looked at.
InsertDoneAlways(done, output) ==
  [set |-> done \cup {output}, second |-> TRUE]

\* done_.insert(output): the set afterwards and whether the symbol was new.
InsertDone(done, output) ==
  [set |-> done \cup {output}, second |-> output \notin done]

\* GenRuleName: the name minted from rule_id_.
GenRuleName(rule_id) == <<"rule", rule_id>>

\* EmitDepfile on cmd_buf_ = buf once GetDepfileFromCommand returned r.
DepfileLine(buf, r) ==
  IF r.abort # "none" THEN [buf |-> Append(buf, " "), abort |-> r.abort, lines |-> <<>>]
  ELSE [buf |-> buf, abort |-> "none",
        lines |-> IF r.ok THEN <<Attr("depfile", r.out)>> ELSE <<>>]

\* EmitDepfile on cmd_buf_ = buf: [buf, abort, lines].
EmitDepfile(buf) == DepfileLine(buf, GetDepfileFromCommand(Append(buf, " ")))

\* EmitNode's choice between a response file and a plain command.
UsesRspfile(buf) == ByteSize(buf) > RspThreshold

\* The command lines of a rule, from cmd_buf_.
EmitCommand(buf) ==
  IF UsesRspfile(buf)
  THEN <<Attr("rspfile", <<"$","o","u","t",".","r","s","p">>),
         Attr("rspfile_content", buf),
         Attr("command", <<"s","h"," ","$","o","u","t",".","r","s","p">>)>>
  ELSE <<Attr("command", buf)>>

\* The first lines of a rule stanza.
RuleHead(commands, rule_name) ==
  <<Line("rule", "", rule_name, <<>>, <<>>, <<>>, commands),
    Attr("description", <<"b","u","i","l","d"," ","$","o","u","t">>)>>

\* The rule stanza once GenShellScript returned g and EmitDepfile d.
RuleLines(head, g, d) ==
  IF d.abort # "none"
  THEN [lines |-> head, buf |-> d.buf, pool |-> g.pool, abort |-> d.abort,
        under |-> g.under, wild |-> g.wild]
  ELSE [lines |-> head \o d.lines \o EmitCommand(d.buf), buf |-> d.buf,
        pool |-> g.pool, abort |-> "none", under |-> g.under, wild |-> g.wild]

\* The rule stanza once GenShellScript returned g.
RuleFrom(head, g) ==
  IF g.abort # "none"
  THEN [lines |-> head, buf |-> g.buf, pool |-> FALSE, abort |-> g.abort,
        under |-> g.under, wild |-> g.wild]
  ELSE RuleLines(head, g, EmitDepfile(g.buf))

\* The rule stanza EmitNode writes for a non-empty command list:
\* [lines, buf, pool, abort, under, wild].
EmitRule(commands, rule_name, goma_dir, garbage) ==
  RuleFrom(RuleHead(commands, rule_name),
           GenShellScript(commands, goma_dir, garbage))

\* EmitBuild, and the pool attribute EmitNode writes after it.
EmitBuild(node, rule_name, ds, oos, use_local_pool, commands) ==
  <<Line("build", node, rule_name, <<>>, ds, oos, commands)>>
  \o (IF use_local_pool THEN <<Attr("pool", <<>>)>> ELSE <<>>)

\* What a run of EmitRule can come to.  The read of cmd_buf_[size-1] of an empty
\* buffer is undefined: the run goes on (the byte read is no space), or resize
\* throws length_error (it is one), or the read faults.
WildOutcomes(r, commands, rule_name, goma_dir) ==
  IF r.wild
  THEN {r, EmitRule(commands, rule_name, goma_dir, " "),
        EmitRule(commands, rule_name, goma_dir, "FAULT")}
  ELSE {r}

RuleOutcomes(commands, rule_name, goma_dir) ==
  WildOutcomes(EmitRule(commands, rule_name, goma_dir, "NUL"),
               commands, rule_name, goma_dir)

\* One call of EmitNode, without the calls it makes on the dependencies: those
\* are put in front of the pending calls, regular dependencies first.
\* is_phony and whether node->cmds is empty are fields of the DepNode, read in
\* this call alone; commands is what ce_.Eval returns for it.
EmitNode ==
  /\ pc = "walk"
  /\ calls # <<>>
  /\ LET node == Head(calls)
         p == InsertDone(done_, node)
     IN \E has_cmds \in BOOLEAN :
        \E commands \in (IF has_cmds THEN ce_ ELSE {<<>>}) :
          LET rule_name == IF commands = <<>> THEN <<"phony">>
                           ELSE GenRuleName(rule_id_)
              outcomes == IF commands = <<>> \/ ~p.second
                          THEN {[lines |-> <<>>, buf |-> cmd_buf_, pool |-> FALSE,
                                 abort |-> "none", under |-> FALSE, wild |-> FALSE]}
                          ELSE RuleOutcomes(commands, rule_name, g_goma_dir)
          IN \E r \in outcomes, is_phony \in BOOLEAN :
             IF ~p.second
             THEN /\ calls' = Tail(calls)
                  /\ UNCHANGED <<pc, done_, rule_id_, cmd_buf_, ninja, abort, under, wild>>
             ELSE IF ~has_cmds /\ deps[node] = <<>> /\ order_onlys[node] = <<>>
                     /\ ~is_phony
             THEN /\ calls' = Tail(calls)
                  /\ done_' = p.set
                  /\ UNCHANGED <<pc, rule_id_, cmd_buf_, ninja, abort, under, wild>>
             ELSE /\ done_' = p.set
                  /\ rule_id_' = IF commands = <<>> THEN rule_id_ ELSE rule_id_ + 1
                  /\ cmd_buf_' = r.buf
                  /\ under' = (under \/ r.under)
                  /\ wild' = (wild \/ r.wild)
                  /\ abort' = r.abort
                  /\ IF r.abort # "none"
                     THEN /\ pc' = "aborted"
                          /\ ninja' = ninja \o r.lines
                          /\ calls' = calls
                     ELSE /\ pc' = pc
                          /\ ninja' = ninja \o r.lines
                                \o EmitBuild(node, rule_name, deps[node],
                                             order_onlys[node], r.pool, commands)
                          /\ calls' = deps[node] \o order_onlys[node] \o Tail(calls)
  /\ UNCHANGED <<g_goma_dir, deps, order_onlys, roots, ce_, script, open,
                 avoid_io, fcmd, fname, fret>>

-----------------------------------------------------------------------------
(* Driver *)

\* The strings the inputs are made of.
SHELLBASH == <<"/","b","i","n","/","b","a","s","h">>
BINSH == <<"/","b","i","n","/","s","h">>
J300 == <<"-","j","3","0","0"," ">>
GCC == <<"g","c","c">>
MD == <<" ","-","M","D">>
MMD == <<" ","-","M","M","D">>
MF == <<" ","-","M","F">>
DASHC == <<" ","-","c">>
DASHO == <<" ","-","o">>
FOOD == <<" ","f","o","o",".","d">>
FOOC == <<" ","f","o","o",".","c">>
FOOS == <<" ","f","o","o",".","s">>
DIRFOOS == <<" ","d","i","r","/","f","o","o",".","s">>
FOOO == <<" ","f","o","o",".","o">>
OUTFOOO == <<" ","o","u","t","/","f","o","o",".","o">>
FOOP == <<" ","f","o","o",".","P">>
RSCC == <<" ","b","i","n","/","l","l","v","m","-","r","s","-","c","c"," ","x">>
LS == <<"l","s">>
ANDROIDCC == <<"p","r","e","b","u","i","l","t","s","/","g","c","c","/","x","-","g","c","c"," ","-","c"," ","a">>


ShellFile == "ninja.sh"
NinjaFile == "build.ninja"

ShLine(kind, name, val) == [kind |-> kind, name |-> name, val |-> val]

\* The export and unset lines of GenerateShell, one per entry of ev_->exports().
RECURSIVE ExportLines(_)
ExportLines(exports) ==
  IF exports = <<>> THEN <<>>
  ELSE (IF Head(exports).exported
        THEN <<ShLine("export", Head(exports).name, Head(exports).val)>>
        ELSE <<ShLine("unset", Head(exports).name, <<>>)>>)
       \o ExportLines(Tail(exports))

\* What the evaluator can hold: the binding of SHELL and the exports.
Environments ==
  {[shell |-> <<>>,
    exports |-> <<[name |-> "FOO", exported |-> TRUE, val |-> <<"y","e","s">>],
                  [name |-> "BAR", exported |-> FALSE, val |-> <<>>]>>],
   [shell |-> SHELLBASH, exports |-> <<>>]}

\* GenerateShell.  PERROR ends the process.  The FILE is not closed.
GenerateShell ==
  /\ pc = "shell"
  /\ \E fopen_ok \in BOOLEAN, chmod_ok \in BOOLEAN, ev \in Environments :
       IF ~fopen_ok
       THEN /\ pc' = "exited"
            /\ UNCHANGED <<script, open>>
       ELSE /\ open' = open \cup {ShellFile}
            /\ script' =
                 <<ShLine("shebang", "", IF ev.shell = <<>> THEN BINSH ELSE ev.shell)>>
                 \o ExportLines(ev.exports)
                 \o <<ShLine("exec", NinjaFile,
                             IF g_goma_dir # <<>> THEN J300 ELSE <<>>)>>
            /\ pc' = IF chmod_ok THEN "ninja" ELSE "exited"
  /\ UNCHANGED <<g_goma_dir, deps, order_onlys, roots, ce_, calls, done_, rule_id_,
                 cmd_buf_, ninja, avoid_io, abort, under, wild, fcmd, fname, fret>>

\* GenerateNinja up to its loop over the nodes.
GenerateNinja ==
  /\ pc = "ninja"
  /\ \E fopen_ok \in BOOLEAN :
       IF ~fopen_ok
       THEN /\ pc' = "exited"
            /\ UNCHANGED <<ninja, open, calls>>
       ELSE /\ open' = open \cup {NinjaFile}
            /\ ninja' = <<Attr("header", <<>>)>>
                 \o (IF g_goma_dir # <<>>
                     THEN <<Attr("pool_decl", <<>>), Attr("depth", <<>>)>>
                     ELSE <<>>)
            /\ calls' = roots
            /\ pc' = "walk"
  /\ UNCHANGED <<g_goma_dir, deps, order_onlys, roots, ce_, done_, rule_id_,
                 cmd_buf_, script, avoid_io, abort, under, wild, fcmd, fname, fret>>

\* The end of GenerateNinja, with which Generate returns.
Finish ==
  /\ pc = "walk"
  /\ calls = <<>>
  /\ open' = open \ {NinjaFile}
  /\ pc' = "returned"
  /\ UNCHANGED <<g_goma_dir, deps, order_onlys, roots, ce_, calls, done_, rule_id_,
                 cmd_buf_, ninja, script, avoid_io, abort, under, wild, fcmd, fname, fret>>

\* ~NinjaGenerator.
Destroy ==
  /\ pc = "returned"
  /\ avoid_io' = FALSE
  /\ pc' = "destroyed"
  /\ UNCHANGED <<g_goma_dir, deps, order_onlys, roots, ce_, calls, done_, rule_id_,
                 cmd_buf_, ninja, script, open, abort, under, wild, fcmd, fname, fret>>

\* A call of FindCommandLineFlagWithArg on its own.
CallFindFlag ==
  /\ pc = "flag"
  /\ LET r == FindCommandLineFlagWithArg(fcmd, fname)
     IN fret' = [called |-> TRUE, failed |-> r.failed, val |-> r.val]
  /\ pc' = "flagged"
  /\ UNCHANGED <<g_goma_dir, deps, order_onlys, roots, ce_, calls, done_, rule_id_,
                 cmd_buf_, ninja, script, open, avoid_io, abort, under, wild, fcmd, fname>>

-----------------------------------------------------------------------------
(* Inputs *)

\* The longest recipe of a one-command list drawn byte by byte.
MaxLen == 3
\* The longest recipe of a two-command list drawn byte by byte.
MaxPairLen == 1
\* The most nodes handed to Generate.
MaxRoots == 2
\* The most tokens of a command handed to FindCommandLineFlagWithArg.
MaxToks == 5

Outputs == {"a", "b", "c"}

\* The nodes a node may depend on: the graph is acyclic.
Later(n) ==
  IF n = "a" THEN {<<>>, <<"b">>, <<"c">>, <<"b", "c">>}
  ELSE IF n = "b" THEN {<<>>, <<"c">>}
  ELSE {<<>>}

SeqsUpTo(S, n) == UNION {[1..k -> S] : k \in 0..n}

RECURSIVE Concat(_)
Concat(ss) == IF ss = <<>> THEN <<>> ELSE Head(ss) \o Concat(Tail(ss))

Cmd(recipe, ignore_error) == [cmd |-> recipe, ignore_error |-> ignore_error]

RecipeBytes == {"a", "$", BSL, NL, TAB, "#", "'", ";", " ", "("}

\* Compile recipes: gcc [-MD|-MMD] [-MF ...] -c <input> [-o ...] [<tail>].
CompileRecipes ==
  {Concat(<<GCC, md, mf, DASHC, input, o, tail>>) :
     md \in {<<>>, MD, MMD},
     mf \in {<<>>, MF \o FOOD, MF \o MF \o FOOD, MF},
     input \in {FOOC, FOOS, DIRFOOS},
     o \in {<<>>, DASHO \o FOOO, DASHO \o OUTFOOO, DASHO},
     tail \in {<<>>, FOOP, MF, RSCC}}

\* Recipes around the response-file threshold.
LongRecipes == {<<PAD>>, <<PAD, "a">>, <<PAD, "$">>, <<PAD, ";">>}

\* The recipes of a two-command list: the first from a few, the second drawn.
FirstRecipes == {<<>>, <<"a">>, <<"(">>, <<"$">>, LS, ANDROIDCC}

PairRecipes == SeqsUpTo(RecipeBytes, MaxPairLen) \cup {LS, ANDROIDCC}

CommandLists ==
  {<<Cmd(r, ig)>> :
     r \in SeqsUpTo(RecipeBytes, MaxLen) \cup CompileRecipes \cup LongRecipes
           \cup {LS, ANDROIDCC},
     ig \in BOOLEAN}
  \cup {<<Cmd(r1, ig1), Cmd(r2, ig2)>> :
          r1 \in FirstRecipes, r2 \in PairRecipes, ig1 \in BOOLEAN, ig2 \in BOOLEAN}

\* What the evaluator returns for the nodes of a graph.
EvalPool == {<<>>, <<Cmd(LS, TRUE), Cmd(ANDROIDCC, FALSE)>>}

\* The tokens of a command line, each with the space that ends it; the lone
\* space makes runs of spaces.
FlagTokens ==
  {<<" ">>, <<"-","M","F"," ">>, <<"-","o"," ">>, <<"x"," ">>, <<"f","o","o"," ">>}

\* Command lines that end with a space.
FlagCommands == {Concat(ts) : ts \in SeqsUpTo(FlagTokens, MaxToks) \ {<<>>}}

FlagNames == {<<" ","-","M","F"," ">>, <<" ","-","o"," ">>}

-----------------------------------------------------------------------------
(* Specifications *)

\* The generator after construction, before Generate.
Constructed ==
  /\ pc = "shell"
  /\ calls = <<>>
  /\ done_ = {}
  /\ rule_id_ = 0
  /\ cmd_buf_ = <<>>
  /\ ninja = <<>>
  /\ script = <<>>
  /\ open = {}
  /\ avoid_io = TRUE
  /\ abort = "none"
  /\ under = FALSE
  /\ wild = FALSE
  /\ fcmd = <<>>
  /\ fname = <<>>
  /\ fret = [called |-> FALSE, failed |-> FALSE, val |-> <<>>]

\* Generate on a dep graph over Outputs.
Init ==
  /\ Constructed
  /\ g_goma_dir \in {<<>>, <<"g">>}
  /\ deps \in {f \in [Outputs -> SeqsUpTo(Outputs, 2)] : \A n \in Outputs : f[n] \in Later(n)}
  /\ order_onlys \in {f \in [Outputs -> SeqsUpTo(Outputs, 2)] : \A n \in Outputs : f[n] \in Later(n)}
  /\ roots \in SeqsUpTo(Outputs, MaxRoots) \ {<<>>}
  /\ ce_ = EvalPool

Next == GenerateShell \/ GenerateNinja \/ EmitNode \/ Finish \/ Destroy

Spec == Init /\ [][Next]_vars

\* Generate on one node, whose command list is drawn from CommandLists.
InitCmd ==
  /\ Constructed
  /\ g_goma_dir \in {<<>>, <<"g">>}
  /\ deps = [n \in Outputs |-> <<>>]
  /\ order_onlys = [n \in Outputs |-> <<>>]
  /\ roots = <<"a">>
  /\ \E cl \in CommandLists : ce_ = {cl}

SpecCmd == InitCmd /\ [][Next]_vars

\* FindCommandLineFlagWithArg on a command that ends with a space.
InitFlag ==
  /\ pc = "flag"
  /\ g_goma_dir = <<>>
  /\ deps = [n \in Outputs |-> <<>>]
  /\ order_onlys = [n \in Outputs |-> <<>>]
  /\ roots = <<>>
  /\ ce_ = {}
  /\ calls = <<>>
  /\ done_ = {}
  /\ rule_id_ = 0
  /\ cmd_buf_ = <<>>
  /\ ninja = <<>>
  /\ script = <<>>
  /\ open = {}
  /\ avoid_io = FALSE
  /\ abort = "none"
  /\ under = FALSE
  /\ wild = FALSE
  /\ fcmd \in FlagCommands
  /\ fname \in FlagNames
  /\ fret = [called |-> FALSE, failed |-> FALSE, val |-> <<>>]

NextFlag == CallFindFlag

SpecFlag == InitFlag /\ [][NextFlag]_vars

-----------------------------------------------------------------------------
(* Properties *)

Range(f) == {f[i] : i \in DOMAIN f}

Builds == {i \in DOMAIN ninja : ninja[i].kind = "build"}
Rules == {i \in DOMAIN ninja : ninja[i].kind = "rule"}
Commands == {i \in DOMAIN ninja : ninja[i].kind = "command"}

\* The rule line a line of a rule stanza belongs to.
RuleOf(i) == Max({j \in Rules : j <= i})

\* Every $ of s is one half of an adjacent $$ pair: the runs of $ are even.
DollarsPaired(s) ==
  \A i \in DOMAIN s :
    (s[i] = "$" /\ (i = 1 \/ s[i - 1] # "$")) =>
      \E n \in 1..Len(s) :
        /\ n % 2 = 0
        /\ i + n - 1 <= Len(s)
        /\ \A k \in i..(i + n - 1) : s[k] = "$"
        /\ (i + n > Len(s) \/ s[i + n] # "$")

\* C1: each output symbol is the left-hand side of at most one build stanza of
\* the manifest, at every point of the walk.
C1_Dedup ==
  \A i \in Builds : \A j \in Builds : ninja[i].out = ninja[j].out => i = j

\* C1: Generate returned on a graph in which c is a regular and an order-only
\* dependency of a and a dependency of b, b is a dependency of a, and a and b
\* are both roots; all three were emitted.
C1_Witness ==
  /\ pc = "returned"
  /\ roots = <<"a", "b">>
  /\ deps["a"] = <<"b", "c">>
  /\ order_onlys["a"] = <<"c">>
  /\ deps["b"] = <<"c">>
  /\ {ninja[i].out : i \in Builds} = Outputs

\* The part of the shell script a command gives: its translation, true for an
\* empty one, behind the wrapper when that is put in front of it.
Contribution(c, goma_dir) ==
  LET t == TranslateCommand(SkipSpace(c.cmd), <<"(">>, "NUL").translated
  IN IF t = <<>> THEN <<"t","r","u","e">>
     ELSE IF WrapsCommand(goma_dir, t) THEN Gomacc(goma_dir) \o t
     ELSE t

\* The rule stanzas C3 is about: two commands, the first with ignore_error and
\* the second without, neither recipe (leading whitespace aside) starting with
\* a parenthesis.
C3_Case(i) ==
  /\ i \in Commands
  /\ LET cs == ninja[RuleOf(i)].cmds
     IN /\ Len(cs) = 2
        /\ cs[1].ignore_error
        /\ ~cs[2].ignore_error
        /\ \A k \in 1..2 : SkipSpace(cs[k].cmd) = <<>> \/ Head(SkipSpace(cs[k].cmd)) # "("

\* C3 as stated: the two commands are wrapped together in one subshell, with
\* " ; true ; " between them.
C3_OneSubshell ==
  \A i \in DOMAIN ninja :
    C3_Case(i) =>
      LET cs == ninja[RuleOf(i)].cmds
      IN ninja[i].val = <<"(">> \o Contribution(cs[1], g_goma_dir)
                        \o <<" ", ";", " ", "t","r","u","e", " ", ";", " ">>
                        \o Contribution(cs[2], g_goma_dir) \o <<")">>

\* C3, amended: each of the two commands is wrapped in a subshell of its own,
\* with " ; " between the two subshells: (<cmd1>) ; (<cmd2>).
C3_TwoSubshells ==
  \A i \in DOMAIN ninja :
    C3_Case(i) =>
      LET cs == ninja[RuleOf(i)].cmds
      IN ninja[i].val = <<"(">> \o Contribution(cs[1], g_goma_dir)
                        \o <<")", " ", ";", " ", "(">>
                        \o Contribution(cs[2], g_goma_dir) \o <<")">>

\* C3: the command line of such a two-command rule was written, the second
\* command behind the wrapper.
C3_Witness ==
  \E i \in DOMAIN ninja :
    /\ C3_Case(i)
    /\ g_goma_dir # <<>>
    /\ ninja[RuleOf(i)].cmds[1].cmd = LS
    /\ ninja[RuleOf(i)].cmds[2].cmd = ANDROIDCC

\* Whether the build stanza at line i carries the pool attribute.
HasPool(i) == i + 1 \in DOMAIN ninja /\ ninja[i + 1].kind = "pool"

\* No command of the list is an Android compile command once translated.
NoneCompiles(commands) ==
  \A k \in DOMAIN commands :
    ~IsAndroidCompileCommand(
       TranslateCommand(SkipSpace(commands[k].cmd), <<"(">>, "NUL").translated)

\* C5: a build stanza is followed by pool = local_pool exactly when goma_dir is
\* set, the node's command list is not empty and none of its translated
\* commands is an Android compile command; the attribute follows build stanzas
\* only.
C5_LocalPool ==
  /\ \A i \in Builds :
       HasPool(i) <=> /\ g_goma_dir # <<>>
                      /\ ninja[i].cmds # <<>>
                      /\ NoneCompiles(ninja[i].cmds)
  /\ \A i \in DOMAIN ninja :
       ninja[i].kind = "pool" => i - 1 \in Builds

\* C5: with goma_dir set, a build stanza of a two-command node carries the
\* pool attribute.
C5_Witness ==
  \E i \in Builds :
    /\ HasPool(i)
    /\ g_goma_dir # <<>>
    /\ Len(ninja[i].cmds) = 2

\* C2 (for a command below the response-file threshold, whose command line
\* carries the script): every $ of the value written after command = is one
\* half of an adjacent $$ pair.
C2_DollarEscape ==
  \A i \in Commands :
    ninja[i - 1].kind # "rspfile_content" => DollarsPaired(ninja[i].val)

\* The recipes C4 is about: a dependency flag, and the compiled input foo.s,
\* alone or behind a directory, where foo is the basename of the inferred
\* depfile; the .P sibling of the depfile is not named.
C4_Case(recipe) ==
  /\ HasDepFlag(recipe \o <<" ">>)
  /\ \/ find(recipe \o <<" ">>, FOOS \o <<" ">>) # 0
     \/ find(recipe \o <<" ">>, DIRFOOS \o <<" ">>) # 0
  /\ LET impl == GetDepfileFromCommandImpl(recipe \o <<" ">>)
     IN /\ impl.ok
        /\ StripExt(Basename(impl.out)) = <<"f","o","o">>
        /\ find(recipe, SiblingP(impl.out)) = 0

\* C4: no depfile line is written for the rule of such a recipe.
C4_AssemblyNoDepfile ==
  \A i \in Rules :
    (Len(ninja[i].cmds) = 1 /\ C4_Case(ninja[i].cmds[1].cmd)) =>
      \A j \in DOMAIN ninja : ninja[j].kind # "depfile"

\* C6: when Generate has returned, neither of the two files is open.
C6_AllClosed == pc = "returned" => open = {}

\* The positions of cmd at which the flag token name occurs.
FlagHits(cmd, name) == {i \in 1..Len(cmd) : MatchAt(cmd, name, i)}

\* The space-delimited argument after the last position of name in cmd: the
\* next run of bytes other than the space.
LastArgument(cmd, name) ==
  LET rest == TrimLeftSpace(substr(cmd, Max(FlagHits(cmd, name)) + Len(name)))
      sp == find(rest, <<" ">>)
  IN IF sp = 0 THEN rest ELSE SubSeq(rest, 1, sp - 1)

\* C7 (where an argument follows the last position of the flag token, or the
\* token does not occur): FindCommandLineFlagWithArg returns the argument that
\* follows the last position of the token in cmd, and the empty piece when the
\* token does not occur.
C7_LastOccurrence ==
  fret.called =>
    IF FlagHits(fcmd, fname) = {} THEN ~fret.failed /\ fret.val = <<>>
    ELSE LastArgument(fcmd, fname) # <<>> =>
           ~fret.failed /\ fret.val = LastArgument(fcmd, fname)

\* The first # of a recipe, 0 when it has none.
FirstHash(recipe) == FirstOf({i \in DOMAIN recipe : recipe[i] = "#"})

\* C8 (for a one-command rule whose recipe holds no quote character, so that
\* its first # is outside quotes): when the first # does not directly follow a
\* backslash, the scan stops there, and no # is in the command.
C8_CommentStops ==
  \A i \in Commands :
    LET cs == ninja[RuleOf(i)].cmds
        r == SkipSpace(cs[1].cmd)
        h == FirstHash(r)
    IN (/\ Len(cs) = 1
        /\ Range(r) \cap {"'", "\"", BQ} = {}
        /\ h # 0
        /\ (h = 1 \/ r[h - 1] # BSL))
       => "#" \notin Range(ninja[i].val)

\* C9 (its bound on the strip loop, in the parenthesis): TranslateCommand
\* never indexes an empty buffer.
C9_NeverIndexesEmpty == ~wild

\* C10: neither the CHECK of GetDepfileFromCommand nor the one of
\* FindCommandLineFlagWithArg fires.
C10_NoCheckFires == abort \notin {"check_space", "check_arg"}

=============================================================================
